---- MODULE Spec2Model ----
(***************************************************************************)
(* Model of project/app.py: the Flask handler recommend() of POST          *)
(* /recommend, the remote model client call_hf_model() and the fallback    *)
(* generator over the static catalog fashion_data.                         *)
(*                                                                         *)
(* Python values are records [t |-> type, v |-> payload] so that values of *)
(* different Python types stay comparable.  Texts (the HTTP response body, *)
(* the model output hf_text) are sequences of lexical tokens: punctuation, *)
(* string literals, numbers, the literals null/true/false, whitespace and  *)
(* bare words.  json.loads is a recursive-descent parser over them.        *)
(***************************************************************************)
EXTENDS Integers, Sequences, FiniteSets, TLC

VARIABLES
    HF_API_KEY,     \* module global, app.py:23
    HF_MODEL,       \* module global, app.py:24
    fashion_data,   \* module global dict, app.py:15-20 (a mutable dict of lists)
    pc,             \* per handler thread: position in recommend()
    data,           \* per thread: request.json, app.py:66
    resp,           \* per thread: outcome of requests.post, app.py:40
    hf_text,        \* per thread: value returned by call_hf_model, app.py:82
    parsed,         \* per thread: local `parsed`, app.py:83-95, and how it was got
    posted,         \* per thread: requests.post was executed for this request
    candidates,     \* per thread: local list `candidates` (with its identity)
    response        \* per thread: what the client receives

vars == <<HF_API_KEY, HF_MODEL, fashion_data, pc, data, resp, hf_text, parsed,
          posted, candidates, response>>

(***************************************************************************)
(* Python values of the request fields and of the configuration.           *)
(***************************************************************************)
None == [t |-> "none", v |-> ""]
PStr(s) == [t |-> "str", v |-> s]
PInt(s) == [t |-> "int", v |-> s]
\* a list value: v = "" is the empty list [], any other v a non-empty list
PList(s) == [t |-> "list", v |-> s]

\* Python truthiness, as used by `x or default`, `if style` and `not HF_API_KEY`
Truthy(x) ==
    CASE x.t = "none" -> FALSE
      [] x.t = "str"  -> x.v # ""
      [] x.t = "int"  -> x.v # "0"
      [] x.t = "bool" -> x.v = "True"
      [] x.t = "list" -> x.v # ""
      [] OTHER        -> TRUE

\* dict.get(key) hashes its key: lists are unhashable (TypeError)
Hashable(x) == x.t # "list"

\* `a or b`
Or(a, b) == IF Truthy(a) THEN a ELSE b

(***************************************************************************)
(* The static catalog, app.py:15-20.  StyleOrder is the insertion order of *)
(* the dict, which sum(fashion_data.values(), []) follows.                 *)
(***************************************************************************)
StyleOrder == <<"casual", "formal", "party", "traditional">>

FashionData0 ==
    [k \in {"casual", "formal", "party", "traditional"} |->
        CASE k = "casual" ->
               <<"Jeans + T-shirt", "Sneakers + Hoodie", "Denim Jacket + White Tee">>
          [] k = "formal" ->
               <<"Suit + Formal Shoes", "Blazer + Trousers", "Saree / Kurti Set">>
          [] k = "party" ->
               <<"Black Dress", "Stylish Kurti + Jewelry", "Designer Shirt + Jeans">>
          [] k = "traditional" ->
               <<"Saree", "Lehenga", "Kurta Pyjama">>]

Range(s) == {s[i] : i \in 1..Len(s)}

RECURSIVE ConcatAll(_, _, _)
\* sum(fashion_data.values(), []): the lists of fd concatenated in key order
ConcatAll(fd, order, i) ==
    IF i > Len(order) THEN <<>>
    ELSE fd[order[i]] \o ConcatAll(fd, order, i + 1)

RECURSIVE DedupFrom(_, _, _)
DedupFrom(s, i, seen) ==
    IF i > Len(s) THEN <<>>
    ELSE IF s[i] \in seen THEN DedupFrom(s, i + 1, seen)
    ELSE <<s[i]>> \o DedupFrom(s, i + 1, seen \cup {s[i]})

\* list(dict.fromkeys(xs)): first occurrences, in order
DictFromKeys(xs) == DedupFrom(xs, 1, {})

\* A list object: its identity (`ref`: the catalog key whose list it is, or
\* "fresh" for a list no one else holds) and its current content.
FreshList(xs) == [ref |-> "fresh", val |-> xs]
NoList == [ref |-> "fresh", val |-> <<>>]

\* a variant that hands back the very list it was given (no copy)
NoCopy(c) == [ref |-> c.ref, val |-> DictFromKeys(c.val)]

\* app.py:108, candidates = list(dict.fromkeys(candidates)): always a new list
UniqueCopy(c) == FreshList(DictFromKeys(c.val))

\* a variant that puts the whole catalog in the pool whenever the style has no list
SelectUnion(fd, style) ==
    IF Truthy(style) /\ style.t = "str" /\ style.v \in DOMAIN fd
    THEN [ref |-> style.v, val |-> fd[style.v]]
    ELSE FreshList(ConcatAll(fd, StyleOrder, 1))

\* a variant that never looks at the style
SelectAll(fd, style) == FreshList(ConcatAll(fd, StyleOrder, 1))

\* app.py:106, fashion_data.get(style, []) if style else sum(fashion_data.values(), [])
\* (for a hashable style; dict.get returns the catalog's own list object)
SelectCandidates(fd, style) ==
    IF Truthy(style)
    THEN IF style.t = "str" /\ style.v \in DOMAIN fd
         THEN [ref |-> style.v, val |-> fd[style.v]]
         ELSE FreshList(<<>>)
    ELSE FreshList(ConcatAll(fd, StyleOrder, 1))

NumRecs == 3

\* The orderings random.shuffle can leave in a list, as far as the handler can
\* tell: the handler reads len(candidates) and candidates[0..NumRecs-1] only, so
\* for each choice of the first min(n, NumRecs) entries one permutation with
\* that prefix is kept (the rest in their old order).  For n <= NumRecs these
\* are all n! permutations.
ShuffleOutcomes(xs) ==
    LET n == Len(xs)
        k == IF n < NumRecs THEN n ELSE NumRecs
        Inj == {f \in [1..k -> 1..n] : \A i, j \in 1..k : f[i] = f[j] => i = j}
        Order(f) == [i \in 1..k |-> f[i]] \o
                    SelectSeq([i \in 1..n |-> i],
                              LAMBDA i : \A j \in 1..k : f[j] # i)
    IN {[i \in 1..n |-> xs[Order(f)[i]]] : f \in Inj}

TOP_TIP == "Choose one statement accessory and keep the rest minimal."
PLACEHOLDER == "Smart Casual Outfit"

\* a variant that ignores the caller's colour
RecommendationNoColor(cands, i, color, occasion) ==
    IF i <= Len(cands)
    THEN [outfit |-> cands[i], color |-> PStr("neutral/black"),
          explanation |-> [tmpl |-> "suits", outfit |-> cands[i],
                           color |-> PStr("neutral/black"),
                           occasion |-> Or(occasion, PStr("many occasions"))]]
    ELSE [outfit |-> PLACEHOLDER, color |-> PStr("neutral"),
          explanation |-> [tmpl |-> "works well", outfit |-> PLACEHOLDER,
                           color |-> PStr("neutral"),
                           occasion |-> Or(occasion, PStr("general"))]]

\* app.py:112-125, one iteration of the loop (i is 1-based here)
Recommendation(cands, i, color, occasion) ==
    IF i <= Len(cands)
    THEN LET suggested_color == Or(color, PStr("neutral/black"))
         IN [outfit |-> cands[i], color |-> suggested_color,
             explanation |-> [tmpl |-> "suits", outfit |-> cands[i],
                              color |-> suggested_color,
                              occasion |-> Or(occasion, PStr("many occasions"))]]
    ELSE LET suggested_color == Or(color, PStr("neutral"))
         IN [outfit |-> PLACEHOLDER, color |-> suggested_color,
             explanation |-> [tmpl |-> "works well", outfit |-> PLACEHOLDER,
                              color |-> suggested_color,
                              occasion |-> Or(occasion, PStr("general"))]]

\* app.py:105-130, recs and result
FallbackResult(cands, color, occasion) ==
    [recommendations |->
        [i \in 1..NumRecs |-> Recommendation(cands, i, color, occasion)],
     top_tip |-> TOP_TIP]

NoResult == [recommendations |-> <<>>, top_tip |-> ""]

(***************************************************************************)
(* Texts and JSON.  A text is a sequence of lexical tokens.  String        *)
(* literals are atomic tokens; Decode gives the text a string literal      *)
(* denotes (its content, re-read as tokens), PyReprStr the token Python's  *)
(* repr() writes for it.                                                   *)
(***************************************************************************)
K_RECS == "\"recommendations\""
K_GT == "\"generated_text\""
K_TEXT == "\"text\""
K_FOO == "\"foo\""
S_EMPTY == "\"\""
S_X == "\"X\""
\* string literals whose content is itself a text the parser will read
S_JSON == "\"{\\\"recommendations\\\":[\\\"X\\\"]}\""
S_WORDS == "\"not json\""
S_EMBED == "\"prefix {\\\"recommendations\\\":[\\\"X\\\"]} suffix\""
S_PADDED == "\" {\\\"recommendations\\\":[\\\"X\\\"]} \""
S_LISTED == "\"[{\\\"recommendations\\\":[\\\"X\\\"]}]\""
S_RECS5 == "\"{\\\"recommendations\\\":5}\""
S_RECS_NONE == "\"{\\\"recommendations\\\":[]}\""
S_FOO1 == "\"{\\\"foo\\\":1}\""
S_FIVE == "\"5\""

StringLiterals ==
    {K_RECS, K_GT, K_TEXT, K_FOO, S_EMPTY, S_X, S_JSON, S_WORDS, S_EMBED,
     S_PADDED, S_LISTED, S_RECS5, S_RECS_NONE, S_FOO1, S_FIVE}
Numbers == {"0", "1", "5"}
Literals == {"null", "true", "false"}
Whitespace == {" "}

\* the content of a string literal, as a text
Decode(tok) ==
    CASE tok = S_EMPTY -> <<>>
      [] tok = S_JSON  -> <<"{", K_RECS, ":", "[", S_X, "]", "}">>
      [] tok = S_WORDS -> <<"not", " ", "json">>
      [] tok = S_EMBED -> <<"prefix", " ", "{", K_RECS, ":", "[", S_X, "]", "}", " ", "suffix">>
      [] tok = S_PADDED -> <<" ", "{", K_RECS, ":", "[", S_X, "]", "}", " ">>
      [] tok = S_LISTED -> <<"[", "{", K_RECS, ":", "[", S_X, "]", "}", "]">>
      [] tok = S_RECS5 -> <<"{", K_RECS, ":", "5", "}">>
      [] tok = S_RECS_NONE -> <<"{", K_RECS, ":", "[", "]", "}">>
      [] tok = S_FOO1  -> <<"{", K_FOO, ":", "1", "}">>
      [] tok = S_FIVE  -> <<"5">>
      [] tok = K_RECS  -> <<"recommendations">>
      [] tok = K_GT    -> <<"generated_text">>
      [] tok = K_TEXT  -> <<"text">>
      [] tok = K_FOO   -> <<"foo">>
      [] tok = S_X     -> <<"X">>
      [] OTHER         -> <<tok>>

\* repr() of a str: single-quoted (none of the contents above holds a ' without
\* a "), which is no JSON lexeme
PyReprStr(tok) ==
    CASE tok = S_EMPTY -> "''"
      [] tok = K_RECS  -> "'recommendations'"
      [] tok = K_GT    -> "'generated_text'"
      [] tok = K_TEXT  -> "'text'"
      [] tok = K_FOO   -> "'foo'"
      [] tok = S_X     -> "'X'"
      [] tok = S_JSON  -> "'{\"recommendations\":[\"X\"]}'"
      [] tok = S_WORDS -> "'not json'"
      [] tok = S_EMBED -> "'prefix {\"recommendations\":[\"X\"]} suffix'"
      [] tok = S_PADDED -> "' {\"recommendations\":[\"X\"]} '"
      [] tok = S_LISTED -> "'[{\"recommendations\":[\"X\"]}]'"
      [] tok = S_RECS5 -> "'{\"recommendations\":5}'"
      [] tok = S_RECS_NONE -> "'{\"recommendations\":[]}'"
      [] tok = S_FOO1  -> "'{\"foo\":1}'"
      [] tok = S_FIVE  -> "'5'"
      [] OTHER         -> "'?'"

RECURSIVE SkipWs(_, _)
SkipWs(s, i) ==
    IF i <= Len(s) /\ s[i] \in Whitespace THEN SkipWs(s, i + 1) ELSE i

At(s, i) == IF i >= 1 /\ i <= Len(s) THEN s[i] ELSE "<eof>"

RECURSIVE ParseValue(_, _)
RECURSIVE ParseMembers(_, _)
RECURSIVE ParseElements(_, _)
\* json.loads' scanner: the index just after the value that starts at s[i],
\* or 0 when no value starts there
ParseValue(s, i) ==
    LET c == At(s, i)
    IN IF c \in StringLiterals \cup Numbers \cup Literals THEN i + 1
       ELSE IF c = "{" THEN
            LET j == SkipWs(s, i + 1)
            IN IF At(s, j) = "}" THEN j + 1 ELSE ParseMembers(s, j)
       ELSE IF c = "[" THEN
            LET j == SkipWs(s, i + 1)
            IN IF At(s, j) = "]" THEN j + 1 ELSE ParseElements(s, j)
       ELSE 0

\* key : value (, key : value)* }
ParseMembers(s, i) ==
    IF At(s, i) \notin StringLiterals THEN 0
    ELSE LET j == SkipWs(s, i + 1)
         IN IF At(s, j) # ":" THEN 0
            ELSE LET e == ParseValue(s, SkipWs(s, j + 1))
                 IN IF e = 0 THEN 0
                    ELSE LET m == SkipWs(s, e)
                         IN IF At(s, m) = "}" THEN m + 1
                            ELSE IF At(s, m) = ","
                                 THEN ParseMembers(s, SkipWs(s, m + 1))
                                 ELSE 0

\* value (, value)* ]
ParseElements(s, i) ==
    LET e == ParseValue(s, i)
    IN IF e = 0 THEN 0
       ELSE LET m == SkipWs(s, e)
            IN IF At(s, m) = "]" THEN m + 1
               ELSE IF At(s, m) = ","
                    THEN ParseElements(s, SkipWs(s, m + 1))
                    ELSE 0

StripWs(s) == SelectSeq(s, LAMBDA c : c \notin Whitespace)

\* json.loads(text): ok, and the value parsed (its tokens without whitespace),
\* or not ok (an exception)
JsonLoads(s) ==
    LET i == SkipWs(s, 1)
        e == ParseValue(s, i)
    IN IF e # 0 /\ SkipWs(s, e) = Len(s) + 1
       THEN [ok |-> TRUE, val |-> StripWs(SubSeq(s, i, e - 1))]
       ELSE [ok |-> FALSE, val |-> <<>>]

\* JSON values, as parsed: a token sequence without whitespace.  <<>> is Python's
\* None from a failed parse or an absent key.
IsDict(val) == Len(val) >= 2 /\ val[1] = "{"
IsList(val) == Len(val) >= 2 /\ val[1] = "["
IsStr(val) == Len(val) = 1 /\ val[1] \in StringLiterals

\* truthiness of a parsed value
TruthyJ(val) ==
    val \notin {<<>>, <<"null">>, <<"false">>, <<"0">>, <<S_EMPTY>>,
                <<"[", "]">>, <<"{", "}">>}

RECURSIVE MemberFrom(_, _, _, _)
\* walk the members of dict d from index i; the last value stored under key wins
MemberFrom(d, i, key, acc) ==
    IF At(d, i) \notin StringLiterals THEN acc
    ELSE LET e == ParseValue(d, i + 2)
             hit == IF d[i] = key THEN [has |-> TRUE, val |-> SubSeq(d, i + 2, e - 1)]
                    ELSE acc
         IN IF At(d, e) = "," THEN MemberFrom(d, e + 1, key, hit) ELSE hit

\* key in d
DictHas(d, key) == MemberFrom(d, 2, key, [has |-> FALSE, val |-> <<>>]).has
\* d.get(key): None (<<>>) when absent; a JSON null is None too
DictGet(d, key) ==
    LET v == MemberFrom(d, 2, key, [has |-> FALSE, val |-> <<>>]).val
    IN IF v = <<"null">> THEN <<>> ELSE v

\* data[0] of a non-empty list
ListFirst(l) == SubSeq(l, 2, ParseValue(l, 2) - 1)

\* text.find(c) and text.rfind(c), 1-based; 0 stands for Python's -1
Find(s, c) ==
    IF \E i \in 1..Len(s) : s[i] = c
    THEN CHOOSE i \in 1..Len(s) : s[i] = c /\ \A j \in 1..(i - 1) : s[j] # c
    ELSE 0
RFind(s, c) ==
    IF \E i \in 1..Len(s) : s[i] = c
    THEN CHOOSE i \in 1..Len(s) : s[i] = c /\ \A j \in (i + 1)..Len(s) : s[j] # c
    ELSE 0

RECURSIVE PyRepr(_, _)
\* str(x) of a parsed dict, list, number or None/bool: Python's rendering
PyRepr(val, i) ==
    IF i > Len(val) THEN <<>>
    ELSE LET c == val[i]
             out == CASE c \in StringLiterals -> <<PyReprStr(c)>>
                      [] c = "null"  -> <<"None">>
                      [] c = "true"  -> <<"True">>
                      [] c = "false" -> <<"False">>
                      [] c = ":"     -> <<":", " ">>
                      [] c = ","     -> <<",", " ">>
                      [] OTHER       -> <<c>>
         IN out \o PyRepr(val, i + 1)

\* Python objects that texts are made from: a str (its content) or any other
\* object (the JSON value it was parsed from)
TStr(toks) == [t |-> "str", toks |-> toks]
TObj(val) == [t |-> "obj", toks |-> val]
\* the Python object of a parsed JSON value
FromJson(val) == IF IsStr(val) THEN TStr(Decode(val[1])) ELSE TObj(val)
\* str(x)
PyStr(val) == IF IsStr(val) THEN TStr(Decode(val[1])) ELSE TStr(PyRepr(val, 1))

(***************************************************************************)
(* call_hf_model, app.py:27-57.  r is what requests.post and               *)
(* raise_for_status do: r.kind = "ok" with the body r.text, or the         *)
(* exception raised (ConnectionError, Timeout from the 30 s timeout,       *)
(* HTTPError for a non-success status).                                    *)
(***************************************************************************)
NoText == TStr(<<>>)
NoResp == [kind |-> "none", text |-> <<>>]

\* app.py:52 and :55, d.get('generated_text') or d.get('text') or str(d)
PickText(d) ==
    IF TruthyJ(DictGet(d, K_GT)) THEN FromJson(DictGet(d, K_GT))
    ELSE IF TruthyJ(DictGet(d, K_TEXT)) THEN FromJson(DictGet(d, K_TEXT))
    ELSE PyStr(d)

\* app.py:49-57, the value returned for the payload `payload` (resp.json())
ExtractText(payload) ==
    IF IsList(payload) /\ TruthyJ(payload)
    THEN LET first == ListFirst(payload)
         IN IF IsDict(first) THEN PickText(first) ELSE PyStr(first)
    ELSE IF IsDict(payload) THEN PickText(payload)
    ELSE PyStr(payload)

\* a variant that is content with either variable
ConfiguredEither(key, model) == Truthy(key) \/ Truthy(model)

\* app.py:71, HF_API_KEY and HF_MODEL (app.py:33 tests its negation)
Configured(key, model) == Truthy(key) /\ Truthy(model)

\* app.py:33-57: whether requests.post ran, whether an exception left the
\* function, and the value returned otherwise
CallHfModel(key, model, r) ==
    IF ~Configured(key, model)
    THEN [posted |-> FALSE, raised |-> TRUE, value |-> NoText]
    ELSE IF r.kind # "ok"
    THEN [posted |-> TRUE, raised |-> TRUE, value |-> NoText]
    ELSE LET j == JsonLoads(r.text)
         IN [posted |-> TRUE, raised |-> FALSE,
             value |-> IF j.ok THEN ExtractText(j.val) ELSE TStr(r.text)]

(***************************************************************************)
(* The parse of the model output, app.py:83-95.                            *)
(***************************************************************************)
\* app.py:89-90
Span(text) == [start |-> Find(text, "{"), end |-> RFind(text, "}")]

NoParse == [raised |-> FALSE, value |-> <<>>, sub |-> FALSE]

\* a variant without the second attempt
ParseWholeOnly(txt) ==
    IF txt.t # "str"
    THEN [raised |-> TRUE, value |-> <<>>, sub |-> FALSE]
    ELSE [raised |-> FALSE, value |-> JsonLoads(txt.toks).val, sub |-> FALSE]

\* app.py:83-95.  raised: an exception reached the outer handler (json.loads of
\* a non-str raises TypeError and .find then AttributeError); value: the value
\* of `parsed` (<<>> is None); sub: app.py:93 ran (the '{'..'}' substring was
\* handed to json.loads)
ParseOutput(txt) ==
    IF txt.t # "str"
    THEN [raised |-> TRUE, value |-> <<>>, sub |-> FALSE]
    ELSE LET whole == JsonLoads(txt.toks)
             sp == Span(txt.toks)
         IN IF whole.ok
            THEN [raised |-> FALSE, value |-> whole.val, sub |-> FALSE]
            ELSE IF sp.start # 0 /\ sp.end # 0 /\ sp.end > sp.start
            THEN [raised |-> FALSE,
                  value |-> JsonLoads(SubSeq(txt.toks, sp.start, sp.end)).val,
                  sub |-> TRUE]
            ELSE [raised |-> FALSE, value |-> <<>>, sub |-> FALSE]

\* a variant that accepts any mapping that has the key
AcceptsByKey(val) == IsDict(val) /\ DictHas(val, K_RECS)

\* app.py:97, parsed and isinstance(parsed, dict) and parsed.get('recommendations')
Accepts(val) ==
    /\ TruthyJ(val)
    /\ IsDict(val)
    /\ TruthyJ(DictGet(val, K_RECS))

(***************************************************************************)
(* The handler recommend(), app.py:64-132, one thread per request.         *)
(* A response is the status, the return statement that produced the body   *)
(* (path) and the body: `json` for jsonify(parsed), `result` for           *)
(* jsonify(result).                                                        *)
(***************************************************************************)
NoResponse == [status |-> 0, path |-> "none", result |-> NoResult, json |-> <<>>]
ErrorResponse(code) == [status |-> code, path |-> "error", result |-> NoResult, json |-> <<>>]
\* return jsonify(parsed), app.py:99
ModelResponse(val) == [status |-> 200, path |-> "model", result |-> NoResult, json |-> val]
\* return jsonify(result), app.py:132
FallbackResponse(result) == [status |-> 200, path |-> "fallback", result |-> result, json |-> <<>>]

\* a request body as request.json sees it: a JSON object with its three fields
\* (None when absent or null), another JSON value, or no JSON body at all
Body(style, color, occasion) ==
    [t |-> "dict", style |-> style, color |-> color, occasion |-> occasion]
NonObjectBody(kind) == [t |-> kind, style |-> None, color |-> None, occasion |-> None]
NoBody == NonObjectBody("null")

\* the current content of a list object
Deref(fd, c) == IF c.ref \in DOMAIN fd THEN fd[c.ref] ELSE c.val

\* a request arrives at a free thread
Receive(t, Bodies) ==
    /\ pc[t] = "idle"
    /\ \E b \in Bodies : data' = [data EXCEPT ![t] = b]
    /\ pc' = [pc EXCEPT ![t] = "L66"]
    /\ UNCHANGED <<HF_API_KEY, HF_MODEL, fashion_data, resp, hf_text, parsed, posted,
                   candidates, response>>

\* app.py:66-69.  Without a JSON body request.json aborts with 415 or 400 or
\* yields None, by Flask version; data.get on a non-dict raises AttributeError,
\* which Flask turns into a 500.
ReadFields(t) ==
    /\ pc[t] = "L66"
    /\ IF data[t].t = "dict"
       THEN /\ pc' = [pc EXCEPT ![t] = "L71"]
            /\ UNCHANGED response
       ELSE /\ pc' = [pc EXCEPT ![t] = "done"]
            /\ \E code \in (IF data[t].t = "missing" THEN {400, 415, 500} ELSE {500}) :
                   response' = [response EXCEPT ![t] = ErrorResponse(code)]
    /\ UNCHANGED <<HF_API_KEY, HF_MODEL, fashion_data, data, resp, hf_text,
                   parsed, posted, candidates>>

\* app.py:71-102: the model step.  The prompt (app.py:72-79) is only sent.
ModelStep(t, Outcomes) ==
    /\ pc[t] = "L71"
    /\ IF Configured(HF_API_KEY, HF_MODEL)
       THEN \E r \in Outcomes :
              LET c == CallHfModel(HF_API_KEY, HF_MODEL, r)
                  p == IF c.raised THEN NoParse ELSE ParseOutput(c.value)
              IN /\ resp' = [resp EXCEPT ![t] = r]
                 /\ posted' = [posted EXCEPT ![t] = c.posted]
                 /\ hf_text' = [hf_text EXCEPT ![t] = c.value]
                 /\ parsed' = [parsed EXCEPT ![t] = p]
                 /\ IF ~c.raised /\ ~p.raised /\ Accepts(p.value)
                    THEN /\ response' = [response EXCEPT ![t] = ModelResponse(p.value)]
                         /\ pc' = [pc EXCEPT ![t] = "done"]
                    ELSE /\ pc' = [pc EXCEPT ![t] = "L106"]
                         /\ UNCHANGED response
       ELSE /\ pc' = [pc EXCEPT ![t] = "L106"]
            /\ UNCHANGED <<resp, posted, hf_text, parsed, response>>
    /\ UNCHANGED <<HF_API_KEY, HF_MODEL, fashion_data, data, candidates>>

\* app.py:106-108.  fashion_data.get(style, ...) raises TypeError for an
\* unhashable style, uncaught: a 500.
Select(t) ==
    /\ pc[t] = "L106"
    /\ IF Truthy(data[t].style) /\ ~Hashable(data[t].style)
       THEN /\ response' = [response EXCEPT ![t] = ErrorResponse(500)]
            /\ pc' = [pc EXCEPT ![t] = "done"]
            /\ UNCHANGED candidates
       ELSE /\ candidates' = [candidates EXCEPT ![t] =
                                UniqueCopy(SelectCandidates(fashion_data, data[t].style))]
            /\ pc' = [pc EXCEPT ![t] = "L109"]
            /\ UNCHANGED response
    /\ UNCHANGED <<HF_API_KEY, HF_MODEL, fashion_data, data, resp, hf_text, parsed, posted>>

\* app.py:109, random.shuffle(candidates): in place, on the list object
Shuffle(t) ==
    /\ pc[t] = "L109"
    /\ \E order \in ShuffleOutcomes(Deref(fashion_data, candidates[t])) :
         /\ candidates' = [candidates EXCEPT ![t].val = order]
         /\ fashion_data' = IF candidates[t].ref \in DOMAIN fashion_data
                            THEN [fashion_data EXCEPT ![candidates[t].ref] = order]
                            ELSE fashion_data
    /\ pc' = [pc EXCEPT ![t] = "L111"]
    /\ UNCHANGED <<HF_API_KEY, HF_MODEL, data, resp, hf_text, parsed, posted, response>>

\* app.py:111-132
Respond(t) ==
    /\ pc[t] = "L111"
    /\ response' = [response EXCEPT ![t] =
                      FallbackResponse(FallbackResult(Deref(fashion_data, candidates[t]),
                                                      data[t].color, data[t].occasion))]
    /\ pc' = [pc EXCEPT ![t] = "done"]
    /\ UNCHANGED <<HF_API_KEY, HF_MODEL, fashion_data, data, resp, hf_text,
                   parsed, posted, candidates>>

\* the response is sent, the handler's locals die and the thread is free again
Return(t) ==
    /\ pc[t] = "done"
    /\ pc' = [pc EXCEPT ![t] = "idle"]
    /\ data' = [data EXCEPT ![t] = NoBody]
    /\ resp' = [resp EXCEPT ![t] = NoResp]
    /\ hf_text' = [hf_text EXCEPT ![t] = NoText]
    /\ parsed' = [parsed EXCEPT ![t] = NoParse]
    /\ posted' = [posted EXCEPT ![t] = FALSE]
    /\ candidates' = [candidates EXCEPT ![t] = NoList]
    /\ response' = [response EXCEPT ![t] = NoResponse]
    /\ UNCHANGED <<HF_API_KEY, HF_MODEL, fashion_data>>

\* the state after import: load_dotenv and os.environ.get, app.py:13-24
Start(Envs, T) ==
    /\ \E e \in Envs : HF_API_KEY = e[1] /\ HF_MODEL = e[2]
    /\ fashion_data = FashionData0
    /\ pc = [t \in T |-> "idle"]
    /\ data = [t \in T |-> NoBody]
    /\ resp = [t \in T |-> NoResp]
    /\ hf_text = [t \in T |-> NoText]
    /\ parsed = [t \in T |-> NoParse]
    /\ posted = [t \in T |-> FALSE]
    /\ candidates = [t \in T |-> NoList]
    /\ response = [t \in T |-> NoResponse]

(***************************************************************************)
(* Inputs.                                                                 *)
(***************************************************************************)
\* os.environ.get gives None for an unset variable, "" for an empty one
Environments ==
    {<<None, None>>, <<PStr(""), PStr("gpt2")>>, <<PStr("hf_key"), PStr("")>>,
     <<PStr("hf_key"), PStr("gpt2")>>}

Styles == {None, PStr(""), PStr("casual"), PStr("formal"), PStr("sporty"),
           PStr("Casual"), PInt("5"), PList("x")}
ColorOccasions ==
    {<<None, None>>, <<PStr(""), PStr("")>>, <<PInt("0"), None>>,
     <<PStr("Red"), None>>, <<PStr("Red"), PStr("party")>>}

AllBodies ==
    {Body(s, co[1], co[2]) : s \in Styles, co \in ColorOccasions}
    \cup {NonObjectBody(k) : k \in {"null", "list", "str", "missing"}}

\* the request bodies of the interface: a JSON object whose fields, if there,
\* are strings
WellFormed(b) ==
    /\ b.t = "dict"
    /\ b.style.t \in {"none", "str"}
    /\ b.color.t \in {"none", "str"}
    /\ b.occasion.t \in {"none", "str"}

FewBodies ==
    {Body(s, c, None) : s \in {PStr("casual"), PStr("sporty")}, c \in {None, PStr("Red")}}

Ok(text) == [kind |-> "ok", text |-> text]
Failure(kind) == [kind |-> kind, text |-> <<>>]
Failures == {Failure(k) : k \in {"ConnectionError", "Timeout", "HTTPError"}}

\* JSON texts
ObjectOf(key, value) == <<"{", key, ":">> \o value \o <<"}">>
ObjectOf2(k1, v1, k2, v2) == <<"{", k1, ":">> \o v1 \o <<",", k2, ":">> \o v2 \o <<"}">>
ListOf(value) == <<"[">> \o value \o <<"]">>
RecsJson == ObjectOf(K_RECS, <<"[", S_X, "]">>)

\* the usual reply of the inference API: [{"generated_text": <string>}]
Generated(lit) == Ok(ListOf(ObjectOf(K_GT, <<lit>>)))

FewOutcomes ==
    {Failure("Timeout"), Generated(S_JSON), Generated(S_WORDS), Generated(S_RECS5)}

\* Replies that are no JSON, or JSON by accident: an object between a prefix
\* and a suffix.
Prefixes == {<<>>, <<" ">>, <<"Sure", ":", " ">>, <<"{", "note", "}", " ">>, <<"[">>}
Suffixes == {<<>>, <<" ">>, <<" ", "thanks">>, <<" ", ":", "}">>, <<"]">>}
Cores ==
    {RecsJson,
     ObjectOf(K_RECS, ListOf(ObjectOf(K_FOO, <<S_X>>))),
     ObjectOf(K_RECS, <<"[", "]">>),
     ObjectOf(K_RECS, <<"5">>),
     ObjectOf(K_FOO, <<"1">>)}
RawReplies ==
    {Ok(p \o c \o x) : p \in Prefixes, c \in Cores, x \in Suffixes}
    \cup {Ok(<<>>), Ok(<<"not", " ", "json">>), Ok(<<"}", " ", "{">>)}

\* JSON replies: a mapping, alone or first in a list, with or without the fields
\* "generated_text" and "text" (<<>>: the field is absent)
FieldValues == {<<>>, <<S_JSON>>, <<S_EMPTY>>, <<S_WORDS>>, <<"5">>, <<"null">>}
Mapping(g, x) ==
    IF g = <<>> /\ x = <<>> THEN ObjectOf(K_FOO, <<"1">>)
    ELSE IF g = <<>> THEN ObjectOf(K_TEXT, x)
    ELSE IF x = <<>> THEN ObjectOf(K_GT, g)
    ELSE ObjectOf2(K_TEXT, x, K_GT, g)
Mappings == {Mapping(g, x) : g \in FieldValues, x \in {<<>>, <<S_JSON>>, <<S_EMPTY>>, <<S_FOO1>>}}
JsonReplies ==
    {Ok(m) : m \in Mappings} \cup {Ok(ListOf(m)) : m \in Mappings}
    \cup {Ok(<<"{", "}">>), Ok(<<"[", "]">>), Ok(<<"[", "5", "]">>), Ok(<<"[", S_JSON, "]">>),
          Ok(<<S_JSON>>), Ok(<<"5">>), Ok(<<"null">>), Ok(<<"[", "null", "]">>)}
    \cup {Generated(l) : l \in {S_EMBED, S_PADDED, S_LISTED, S_RECS5, S_RECS_NONE,
                                 S_FOO1, S_FIVE}}

AllOutcomes == Failures \cup RawReplies \cup JsonReplies

Main == {1}
Workers == {1, 2}

Init == Start(Environments, Main)
Next ==
    \E t \in Main :
        \/ Receive(t, AllBodies)
        \/ ReadFields(t)
        \/ ModelStep(t, FewOutcomes)
        \/ Select(t)
        \/ Shuffle(t)
        \/ Respond(t)
        \/ Return(t)
Spec == Init /\ [][Next]_vars

\* the model step in full: every reply, a few requests
InitModel == Start(Environments, Main)
NextModel ==
    \E t \in Main :
        \/ Receive(t, FewBodies)
        \/ ReadFields(t)
        \/ ModelStep(t, AllOutcomes)
        \/ Select(t)
        \/ Shuffle(t)
        \/ Respond(t)
        \/ Return(t)
SpecModel == InitModel /\ [][NextModel]_vars

\* two handler threads at once (Flask's threaded server), taking any steps in
\* any order
InitThreads == Start(Environments, Workers)
NextThreads ==
    \E t \in Workers :
        \/ Receive(t, FewBodies)
        \/ ReadFields(t)
        \/ ModelStep(t, {Failure("Timeout"), Generated(S_JSON)})
        \/ Select(t)
        \/ Shuffle(t)
        \/ Respond(t)
        \/ Return(t)
SpecThreads == InitThreads /\ [][NextThreads]_vars

(***************************************************************************)
(* Properties.                                                             *)
(***************************************************************************)
Threads == DOMAIN pc
Returned(t) == pc[t] = "done"
Unset(x) == x \in {None, PStr("")}
IsCatalogKey(style) == style.t = "str" /\ style.v \in DOMAIN FashionData0
CatalogPool == DictFromKeys(ConcatAll(FashionData0, StyleOrder, 1))
IsPermutation(a, b) ==
    /\ Len(a) = Len(b)
    /\ \A x \in Range(a) \cup Range(b) :
         Cardinality({i \in 1..Len(a) : a[i] = x}) = Cardinality({i \in 1..Len(b) : b[i] = x})
Recs(t) == response[t].result.recommendations
\* the fallback shape: exactly 3 recommendations of outfit, color and
\* explanation, and the fixed tip
IsFallbackShape(r) ==
    /\ r.status = 200
    /\ r.path = "fallback"
    /\ DOMAIN r.result = {"recommendations", "top_tip"}
    /\ Len(r.result.recommendations) = 3
    /\ \A i \in 1..Len(r.result.recommendations) :
         DOMAIN r.result.recommendations[i] = {"outfit", "color", "explanation"}
    /\ r.result.top_tip = "Choose one statement accessory and keep the rest minimal."
\* the model step ran and call_hf_model returned a value
CallSucceeded(t) == posted[t] /\ resp[t].kind = "ok"

\* C1: every request ends in an HTTP 200 response with a recommendation set,
\* whatever the request body and whatever the model step did.
C1_AlwaysOk ==
    \A t \in Threads :
        Returned(t) => response[t].status = 200 /\ response[t].path \in {"model", "fallback"}

\* C2: the body the handler returns has a `recommendations` field that is a
\* non-empty sequence: on the model path the accepted value's field is a
\* non-empty list, on the fallback path it has exactly 3 elements.
C2_RecommendationsNonEmptySequence ==
    \A t \in Threads :
        Returned(t) /\ response[t].status = 200 =>
            /\ response[t].path = "model" =>
                 /\ IsList(DictGet(response[t].json, K_RECS))
                 /\ DictGet(response[t].json, K_RECS) # <<"[", "]">>
            /\ response[t].path = "fallback" => Len(Recs(t)) = 3

\* C3: with HF_API_KEY or HF_MODEL unset or empty, no request ever runs
\* requests.post, and every response to a request of the interface (a JSON
\* object with string fields) has the fallback shape.
C3_UnconfiguredNeverCalls ==
    Unset(HF_API_KEY) \/ Unset(HF_MODEL) =>
        \A t \in Threads :
            /\ ~posted[t]
            /\ resp[t] = NoResp
            /\ response[t].path # "model"
            /\ Returned(t) /\ WellFormed(data[t]) => IsFallbackShape(response[t])

C3_Witness ==
    \E t \in Threads :
        /\ HF_API_KEY = PStr("") /\ HF_MODEL = PStr("gpt2")
        /\ Returned(t) /\ WellFormed(data[t]) /\ response[t].path = "fallback"

\* C4, as stated: in the fallback generator, with the style absent or supplied
\* but no catalog key, the pool is all catalog outfits (first occurrences, in
\* order) and the 3 recommendations are catalog outfits, never the placeholder.
C4_UnknownStyleUsesCatalog ==
    \A t \in Threads :
        /\ data[t].style = None \/ (data[t].style.t = "str" /\ ~IsCatalogKey(data[t].style))
        /\ Returned(t)
        /\ response[t].path = "fallback"
        =>
                /\ IsPermutation(candidates[t].val, CatalogPool)
                /\ \A i \in 1..Len(Recs(t)) :
                     Recs(t)[i].outfit \in Range(CatalogPool) \ {PLACEHOLDER}

\* C4, amended: with the style absent or falsy (null, "") the pool is all
\* catalog outfits and the 3 recommendations are distinct catalog outfits; with
\* a truthy style that is no catalog key ("sporty", "Casual") the pool is empty
\* and all 3 recommendations are the placeholder.
C4_PoolByStyle ==
    \A t \in Threads :
        /\ ~Truthy(data[t].style) =>
             /\ pc[t] = "L109" => candidates[t].val = CatalogPool
             /\ Returned(t) /\ response[t].path = "fallback" =>
                  /\ IsPermutation(candidates[t].val, CatalogPool)
                  /\ Len(Recs(t)) = 3
                  /\ \A i \in 1..Len(Recs(t)) :
                       /\ Recs(t)[i].outfit = candidates[t].val[i]
                       /\ Recs(t)[i].outfit \in Range(CatalogPool) \ {PLACEHOLDER}
        /\ Truthy(data[t].style) /\ ~IsCatalogKey(data[t].style) =>
             /\ pc[t] \in {"L109", "L111"} => candidates[t].val = <<>>
             /\ Returned(t) /\ response[t].path = "fallback" =>
                  /\ candidates[t].val = <<>>
                  /\ Len(Recs(t)) = 3
                  /\ \A i \in 1..Len(Recs(t)) : Recs(t)[i].outfit = PLACEHOLDER

C4_Witness ==
    \E t \in Threads :
        /\ data[t].style = PStr("sporty")
        /\ Returned(t) /\ response[t].path = "fallback"

\* C7: with a style that is a catalog key the pool is exactly that style's
\* list, and whatever the shuffle does the 3 recommendations are a permutation
\* of that list: only its outfits, never the placeholder.
C7_KnownStylePool ==
    \A t \in Threads :
        IsCatalogKey(data[t].style) =>
            LET list == FashionData0[data[t].style.v]
            IN /\ pc[t] = "L109" => candidates[t].val = list
               /\ pc[t] = "L111" => IsPermutation(candidates[t].val, list)
               /\ Returned(t) /\ response[t].path = "fallback" =>
                    /\ IsPermutation(candidates[t].val, list)
                    /\ IsPermutation([i \in 1..Len(Recs(t)) |-> Recs(t)[i].outfit], list)
                    /\ \A i \in 1..Len(Recs(t)) :
                         /\ Recs(t)[i].outfit = candidates[t].val[i]
                         /\ Recs(t)[i].outfit # PLACEHOLDER

C7_Witness ==
    \E t \in Threads :
        /\ data[t].style = PStr("casual")
        /\ Returned(t) /\ response[t].path = "fallback"
        /\ [i \in 1..Len(Recs(t)) |-> Recs(t)[i].outfit] =
             <<"Denim Jacket + White Tee", "Sneakers + Hoodie", "Jeans + T-shirt">>

\* C8, as stated: in a fallback response, a supplied color c is the color of
\* all 3 recommendations; with no color, a pool outfit gets "neutral/black" and
\* a placeholder "neutral".
C8_SuppliedColorUsed ==
    \A t \in Threads :
        Returned(t) /\ response[t].path = "fallback" =>
            \A i \in 1..Len(Recs(t)) :
                Recs(t)[i].color =
                    IF data[t].color # None THEN data[t].color
                    ELSE IF i <= Len(candidates[t].val) THEN PStr("neutral/black")
                    ELSE PStr("neutral")

\* C8, amended: a supplied truthy color c (a non-empty string) is the color of
\* all 3 recommendations; with the color absent or falsy (null, "", 0), a pool
\* outfit gets "neutral/black" and a placeholder "neutral".
C8_ColorOrNeutral ==
    \A t \in Threads :
        Returned(t) /\ response[t].path = "fallback" =>
            /\ Len(Recs(t)) = 3
            /\ \A i \in 1..Len(Recs(t)) :
                 Recs(t)[i].color =
                     IF Truthy(data[t].color) THEN data[t].color
                     ELSE IF Recs(t)[i].outfit # PLACEHOLDER THEN PStr("neutral/black")
                     ELSE PStr("neutral")

C8_Witness ==
    \E t \in Threads :
        /\ data[t].color = PStr("Red")
        /\ Returned(t) /\ response[t].path = "fallback"
        /\ \A i \in 1..3 : Recs(t)[i].color = PStr("Red")

\* C5: with the model configured and the call succeeding, the handler returns
\* the parsed value verbatim, without running the fallback generator, exactly
\* when the parse result is a mapping with a non-empty "recommendations";
\* for every other output ('not json', a non-mapping, {"foo": 1}, an empty
\* "recommendations") the response is the fallback result.
C5_ReturnedIffAccepted ==
    \A t \in Threads :
        CallSucceeded(t) =>
            LET v == parsed[t].value
                accepted == /\ IsDict(v)
                            /\ DictHas(v, K_RECS)
                            /\ TruthyJ(DictGet(v, K_RECS))
            IN /\ accepted =>
                    /\ Returned(t)
                    /\ response[t] = ModelResponse(v)
                    /\ candidates[t] = NoList
               /\ ~accepted =>
                    /\ response[t].path # "model"
                    /\ Returned(t) =>
                         response[t] = FallbackResponse(FallbackResult(candidates[t].val,
                                           data[t].color, data[t].occasion))
               /\ hf_text[t] = TStr(RecsJson) => response[t].json = RecsJson
               /\ hf_text[t] \in {TStr(<<"not", " ", "json">>), TStr(ObjectOf(K_FOO, <<"1">>)),
                                  TStr(ObjectOf(K_RECS, <<"[", "]">>)), TStr(ListOf(RecsJson))}
                    => ~accepted

C5_Witness ==
    \E t \in Threads :
        /\ CallSucceeded(t) /\ Returned(t)
        /\ hf_text[t] = TStr(RecsJson)
        /\ response[t] = ModelResponse(RecsJson)

\* an object with a non-empty list "recommendations" at toks[i..j], with text
\* before or after it
Embedded(toks, i, j) ==
    /\ 1 <= i /\ i < j /\ j <= Len(toks)
    /\ i > 1 \/ j < Len(toks)
    /\ toks[i] = "{" /\ toks[j] = "}"
    /\ JsonLoads(SubSeq(toks, i, j)).ok
    /\ IsList(DictGet(JsonLoads(SubSeq(toks, i, j)).val, K_RECS))
    /\ DictGet(JsonLoads(SubSeq(toks, i, j)).val, K_RECS) # <<"[", "]">>
\* the handler returned the object at toks[i..j]
ReturnedObject(t, i, j) ==
    /\ Returned(t)
    /\ response[t] = ModelResponse(StripWs(SubSeq(hf_text[t].toks, i, j)))
\* the parser recovered the object at toks[i..j] and the handler returned it
Recovered(t, i, j) ==
    /\ ~JsonLoads(hf_text[t].toks).ok
    /\ parsed[t].sub
    /\ parsed[t].value = StripWs(SubSeq(hf_text[t].toks, i, j))
    /\ Returned(t)
    /\ response[t] = ModelResponse(StripWs(SubSeq(hf_text[t].toks, i, j)))
\* the substring step ran only after the whole-string parse failed, with a '{'
\* before a '}'
SubstringOnlyAfterFailure(t) ==
    parsed[t].sub =>
        /\ ~JsonLoads(hf_text[t].toks).ok
        /\ \E a, b \in 1..Len(hf_text[t].toks) :
             a < b /\ hf_text[t].toks[a] = "{" /\ hf_text[t].toks[b] = "}"

\* C6, as stated: a valid JSON object with non-empty "recommendations" between
\* a prefix and/or a suffix that make the whole-string parse fail is recovered:
\* accepted and returned; the substring step runs only after the whole-string
\* parse failed, with a '{' before a '}'.
C6_EmbeddedRecovered ==
    \A t \in Threads :
        CallSucceeded(t) /\ hf_text[t].t = "str" =>
            /\ \A i, j \in 1..Len(hf_text[t].toks) :
                 /\ Embedded(hf_text[t].toks, i, j)
                 /\ ~JsonLoads(hf_text[t].toks).ok
                 => ReturnedObject(t, i, j)
            /\ SubstringOnlyAfterFailure(t)

\* C6, amended: such an object is recovered when the prefix holds no '{', the
\* suffix holds no '}' and the whole output is not itself valid JSON; the
\* substring step runs only after the whole-string parse failed, with a '{'
\* before a '}'.
C6_OutermostRecovered ==
    \A t \in Threads :
        CallSucceeded(t) /\ hf_text[t].t = "str" =>
            /\ \A i, j \in 1..Len(hf_text[t].toks) :
                 /\ Embedded(hf_text[t].toks, i, j)
                 /\ \A k \in 1..(i - 1) : hf_text[t].toks[k] # "{"
                 /\ \A k \in (j + 1)..Len(hf_text[t].toks) : hf_text[t].toks[k] # "}"
                 /\ ~JsonLoads(hf_text[t].toks).ok
                 => Recovered(t, i, j)
            /\ SubstringOnlyAfterFailure(t)

C6_Witness ==
    \E t \in Threads :
        /\ CallSucceeded(t)
        /\ hf_text[t] = TStr(<<"Sure", ":", " ">> \o RecsJson \o <<" ", "thanks">>)
        /\ Recovered(t, 4, 10)

\* the mapping call_hf_model reads the fields of: the payload, or the first
\* element of a non-empty list payload; <<>> when there is none
Target(payload) ==
    IF IsList(payload) /\ payload # <<"[", "]">>
    THEN IF IsDict(ListFirst(payload)) THEN ListFirst(payload) ELSE <<>>
    ELSE IF IsDict(payload) THEN payload ELSE <<>>

\* C9: on a successful call with a structured payload, call_hf_model returns
\* the "generated_text" field when the mapping contains it, else the "text"
\* field when it contains that, and the string rendering only when neither is
\* present, whatever the value of a present field (an empty string included).
C9_PresentFieldReturned ==
    \A t \in Threads :
        CallSucceeded(t) /\ JsonLoads(resp[t].text).ok =>
            LET d == Target(JsonLoads(resp[t].text).val)
            IN d # <<>> =>
                 hf_text[t] =
                     IF DictHas(d, K_GT) THEN FromJson(DictGet(d, K_GT))
                     ELSE IF DictHas(d, K_TEXT) THEN FromJson(DictGet(d, K_TEXT))
                     ELSE PyStr(d)

\* C10: whatever requests run, one after another or at once, the catalog
\* (keys, lists, their order) and the configuration keep their values of
\* process start.
C10_CatalogAndConfigUnchanged ==
    /\ fashion_data = FashionData0
    /\ [][/\ fashion_data' = fashion_data
          /\ HF_API_KEY' = HF_API_KEY
          /\ HF_MODEL' = HF_MODEL]_vars

C10_Witness ==
    /\ Returned(1) /\ response[1].path = "fallback"
    /\ data[1].style = PStr("casual")
    /\ candidates[1].val # FashionData0["casual"]
    /\ pc[2] = "L109" /\ data[2].style = PStr("casual")
    /\ candidates[2].val = FashionData0["casual"]
====
